---- MODULE Spec2Model ----
(***************************************************************************)
(* Address-database engine of commonlib-shared (REL::IDDB).                *)
(*                                                                         *)
(* Every plugin in the host process owns one IDDB instance (a caller).     *)
(* Its constructor picks the database file, loads it through one of four   *)
(* paths (V0 mapped, V1/V2 decoded, V5 mapped, CSV parsed) into a named    *)
(* memory region shared by all callers of the process, and afterwards      *)
(* serves offset(id) lookups from that region.                             *)
(***************************************************************************)
EXTENDS Integers, Sequences, FiniteSets, TLC

(***************************************************************************)
(* Bounds of the model.                                                    *)
(***************************************************************************)
NCallers == 2
MaxRecs == 2
MaxId == 4

Callers == 1..NCallers
QueryIds == 0..(MaxId + 1)
Offsets == {16, 24}

NoFile == [kind |-> "none"]
NoPath == <<>>
NoHeader == [gameVersion |-> <<0, 0, 0, 0>>, nameLen |-> 0, pointerSize |-> 0, count |-> 0]
EmptySpan == [len |-> 0]

(***************************************************************************)
(* struct MAPPING { id, offset } and sequences of them.                    *)
(***************************************************************************)
MAPPING(i, o) == [id |-> i, offset |-> o]

RECURSIVE SeqsUpTo(_, _)
SeqsUpTo(S, n) ==
    IF n = 0 THEN {<<>>}
    ELSE LET shorter == SeqsUpTo(S, n - 1)
         IN  shorter \cup {Append(s, x) : s \in {t \in shorter : Len(t) = n - 1}, x \in S}

IsAscending(recs) == \A i \in 1..(Len(recs) - 1) : recs[i].id < recs[i + 1].id


(***************************************************************************)
(* enum class Loader / enum class Format (IDDB.h).                         *)
(***************************************************************************)
Loaders == {"SKSE", "F4SE", "SFSE", "OBSE"}

Format_CSV == -100
Format_None == 2147483647
Format_V0 == 0
Format_V1 == 1
Format_V2 == 2
Format_V5 == 5

(***************************************************************************)
(* g_rootMap: the database roots each loader looks for, in order.          *)
(***************************************************************************)
g_rootMap(l) ==
    CASE l = "SKSE" -> <<"versionlib", "version">>
      [] l = "F4SE" -> <<"version">>
      [] l = "SFSE" -> <<"versionlib">>
      [] l = "OBSE" -> <<"versionlib">>
      [] OTHER -> <<>>

Roots == {"versionlib", "version"}
Exts == {"bin", "csv"}
FileNames == Roots \X Exts

(***************************************************************************)
(* Host versions (mod->version(), 4 x u16) and the versions a binary       *)
(* header can carry (4 x u32).                                             *)
(***************************************************************************)
U16 == 65536

HostVersions == {<<1, 10, 980, 0>>, <<1, 10, 163, 0>>}

Bump(v, k, d) == [v EXCEPT ![k] = @ + d]

\* header versions that differ from the host version v in one component,
\* either in its low 16 bits or only above them
ForeignVersions(v) == {Bump(v, k, d) : k \in 1..4, d \in {1, U16}}


(***************************************************************************)
(* Delta codec: one record of IDDB::unpack_file.  A stream is a sequence   *)
(* of groups [type, idArg, offArg]: the control byte and the values the    *)
(* reads of the id payload and of the offset payload return (unused when   *)
(* the kind reads nothing).  Ids and offsets of the model stay far below   *)
(* 2^64, so the uint64 sums never wrap.                                    *)
(***************************************************************************)
Group(t, a, b) == [type |-> t, idArg |-> a, offArg |-> b]

lo_nibble(type) == type % 16
hi_nibble(type) == type \div 16

\* (hi & 8) != 0
scaled(hi) == (hi \div 8) % 2 = 1

\* mutant of unpack_id: kind 3 adds the u8 instead of subtracting it
unpack_id_kind3_adds(lo, prevID, arg) ==
    CASE lo = 0 -> arg
      [] lo = 1 -> prevID + 1
      [] lo = 2 -> prevID + arg
      [] lo = 3 -> prevID + arg
      [] lo = 4 -> prevID + arg
      [] lo = 5 -> prevID - arg
      [] lo = 6 -> arg
      [] lo = 7 -> arg
      [] OTHER -> prevID

\* switch (lo): the id of the record.  The default case is REX::FAIL; id
\* still holds the id of the previous record there.
unpack_id(lo, prevID, arg) ==
    CASE lo = 0 -> arg
      [] lo = 1 -> prevID + 1
      [] lo = 2 -> prevID + arg
      [] lo = 3 -> prevID - arg
      [] lo = 4 -> prevID + arg
      [] lo = 5 -> prevID - arg
      [] lo = 6 -> arg
      [] lo = 7 -> arg
      [] OTHER -> prevID

\* prevOffset / a_header.pointer_size() is evaluated with a zero divisor
divides_by_zero(hi, pointer_size) == scaled(hi) /\ pointer_size = 0

\* tmp, switch (hi & 7) and the final scaling: the offset of the record.
\* Where the division by zero does not trap, its quotient is 0.
unpack_offset(hi, prevOffset, arg, pointer_size) ==
    LET tmp == IF divides_by_zero(hi, pointer_size) THEN 0
               ELSE IF scaled(hi) THEN prevOffset \div pointer_size ELSE prevOffset
        kind == hi % 8
        raw == CASE kind = 0 -> arg
                 [] kind = 1 -> tmp + 1
                 [] kind = 2 -> tmp + arg
                 [] kind = 3 -> tmp - arg
                 [] kind = 4 -> tmp + arg
                 [] kind = 5 -> tmp - arg
                 [] kind = 6 -> arg
                 [] kind = 7 -> arg
    IN  IF scaled(hi) THEN raw * pointer_size ELSE raw

(***************************************************************************)
(* Database files.  Every image has the same fields; a format uses its     *)
(* own: recs (V0: the flat sorted record array after the count), stream    *)
(* (V1/V2), offsets (V5: the dense u32 array), lines (CSV).                *)
(***************************************************************************)
Image(kind, tag, gv, ptr, count, payload) ==
    [kind |-> kind, tag |-> tag, gameVersion |-> gv, nameLen |-> 0,
     nameWords |-> <<>>,
     pointerSize |-> ptr, count |-> count,
     recs |-> IF kind = "v0" THEN payload ELSE <<>>,
     stream |-> IF kind = "v2" THEN payload ELSE <<>>,
     offsets |-> IF kind = "v5" THEN payload ELSE <<>>,
     lines |-> IF kind = "csv" THEN payload ELSE <<>>]

NoVersion == <<0, 0, 0, 0>>

\* legacy V0 file: u64 count, then records already sorted by id
AscendingRecs ==
    {r \in SeqsUpTo({MAPPING(i, o) : i \in 1..MaxId, o \in Offsets}, MaxRecs) : IsAscending(r)}

V0Images == {Image("v0", 0, NoVersion, 0, Len(r), r) : r \in AscendingRecs}

\* V1/V2 streams of the concurrency model: in order, out of order with a
\* pointer-scaled offset, a duplicate id, an unhandled id kind, a stream
\* shorter than the header's count, and the empty database
ExampleStreams ==
    { <<Group(0, 2, 16), Group(17, 0, 0)>>,
      <<Group(0, 4, 16), Group(147, 2, 0)>>,
      <<Group(6 + 16 * 6, 3, 24), Group(2, 0, 16)>>,
      <<Group(0, 1, 16), Group(8, 0, 0)>>,
      <<Group(1 + 16, 0, 0)>>,
      <<>> }

StreamCount(s) == IF Len(s) = 1 THEN 2 ELSE Len(s)

\* char m_name[64]
NameSize == 64

\* a V2 file whose header carries a name of nameLen bytes; words are the
\* u32 values that the name bytes from index NameSize on spell
Named(image, nameLen, words) == [image EXCEPT !.nameLen = nameLen, !.nameWords = words]

\* names as long as m_name, and as long as m_name and m_gameVersion together
LongNameImages(v) ==
    { Named(Image("v2", 2, v, 8, 1, <<Group(0, 2, 16)>>), NameSize, <<>>),
      Named(Image("v2", 2, Bump(v, 1, 1), 8, 1, <<Group(0, 2, 16)>>), NameSize + 16, v) }

\* a header whose pointerSize field is 0, before a pointer-scaled group
ZeroPointerImages(v) == {Image("v2", 2, v, 0, 1, <<Group(16 * 8, 2, 2)>>)}

V2Images(v) ==
    {Image("v2", t, v, 8, StreamCount(s), s) : t \in {1, 2}, s \in ExampleStreams}
    \cup {Image("v2", 2, gv, 8, 1, <<Group(0, 2, 16)>>) : gv \in ForeignVersions(v)}
    \cup LongNameImages(v)
    \cup ZeroPointerImages(v)

\* V5 file: header, then one u32 offset per id, 0 meaning absent
DenseArrays == SeqsUpTo({0} \cup Offsets, MaxRecs)

V5Images(v) ==
    {Image("v5", 5, v, 8, Len(a), a) : a \in DenseArrays}
    \cup {Image("v5", 5, gv, 8, 1, <<16>>) : gv \in ForeignVersions(v)}

\* binary files with a format tag the engine does not know
UnknownTagImages == {Image("bin", t, NoVersion, 0, 0, <<>>) : t \in {0, 3, 4, 6}}


(***************************************************************************)
(* Text of a CSV file: a line is a sequence of one-character strings.      *)
(* The two leading lines are the column header and "<count>,<label>".      *)
(***************************************************************************)
npos == 0

Whitespace == {" ", "\t", "\r", "\n"}

DigitValue(ch) ==
    CASE ch = "0" -> 0 [] ch = "1" -> 1 [] ch = "2" -> 2 [] ch = "3" -> 3
      [] ch = "4" -> 4 [] ch = "5" -> 5 [] ch = "6" -> 6 [] ch = "7" -> 7
      [] ch = "8" -> 8 [] ch = "9" -> 9 [] OTHER -> -1

IsDigit(ch) == DigitValue(ch) >= 0

\* std::string::find(','): position of the first ch, counted from 1, or npos
find(str, ch) ==
    IF \E k \in 1..Len(str) : str[k] = ch
    THEN CHOOSE k \in 1..Len(str) : str[k] = ch /\ \A j \in 1..(k - 1) : str[j] # ch
    ELSE npos

\* erase(0, find_first_not_of(ws)); erase(find_last_not_of(ws) + 1)
trim(str) ==
    LET keep == {k \in 1..Len(str) : str[k] \notin Whitespace}
    IN  IF keep = {} THEN <<>>
        ELSE SubSeq(str, CHOOSE k \in keep : \A j \in keep : k <= j,
                         CHOOSE k \in keep : \A j \in keep : j <= k)

\* std::stoull(str): an optional '+', then the longest run of decimal
\* digits; whatever follows the digits is ignored.  No digit at all is
\* std::invalid_argument.  (The model's texts hold no '-' and no number
\* near 2^64.)
RECURSIVE digits_value(_, _)
digits_value(str, acc) ==
    IF str = <<>> \/ ~IsDigit(Head(str)) THEN acc
    ELSE digits_value(Tail(str), acc * 10 + DigitValue(Head(str)))

stoull(str) ==
    LET body == IF str # <<>> /\ Head(str) = "+" THEN Tail(str) ELSE str
    IN  IF body = <<>> \/ ~IsDigit(Head(body))
        THEN [ok |-> FALSE, value |-> 0]
        ELSE [ok |-> TRUE, value |-> digits_value(body, 0)]

\* the locals of load_csv the data-line loop works on
CsvLocals(mappings, valid, invalid, duplicate) ==
    [mappings |-> mappings, validEntries |-> valid, invalidEntries |-> invalid,
     duplicateEntries |-> duplicate]

NoCsvLocals == CsvLocals(<<>>, 0, 0, 0)

Invalid(st) == [st EXCEPT !.invalidEntries = @ + 1]

\* the body of the data-line loop of load_csv: the locals after one line
csv_line(st, line) ==
    IF line = <<>> \/ line[1] = "#" THEN st
    ELSE LET commaPos == find(line, ",")
         IN  IF commaPos = npos THEN Invalid(st)
             ELSE LET idStr == trim(SubSeq(line, 1, commaPos - 1))
                      offsetStr == trim(SubSeq(line, commaPos + 1, Len(line)))
                  IN  IF idStr = <<>> \/ offsetStr = <<>> THEN Invalid(st)
                      ELSE LET idNum == stoull(idStr)
                               offNum == stoull(offsetStr)
                               mappings == st.mappings
                           IN  IF ~idNum.ok \/ ~offNum.ok THEN Invalid(st)
                               ELSE IF \E k \in 1..Len(mappings) : mappings[k].id = idNum.value
                               THEN [st EXCEPT
                                       !.duplicateEntries = @ + 1,
                                       !.mappings =
                                          [k \in 1..Len(mappings) |->
                                             IF mappings[k].id = idNum.value
                                             THEN MAPPING(idNum.value, offNum.value)
                                             ELSE mappings[k]]]
                               ELSE [st EXCEPT
                                       !.validEntries = @ + 1,
                                       !.mappings =
                                          Append(mappings, MAPPING(idNum.value, offNum.value))]

\* std::getline on the STREAM (STREAM::STREAM sets exceptions(badbit |
\* failbit | eofbit)): "line" when line k exists; at the end of the file the
\* call sets eofbit and therefore throws std::ios_base::failure, a
\* std::system_error, instead of returning a false stream
getline(lines, k) == IF k <= Len(lines) THEN "line" ELSE "throw"

\* while (std::getline(...)) over the data lines, from line k on
RECURSIVE csv_data_loop(_, _, _)
csv_data_loop(st, lines, k) ==
    LET got == getline(lines, k)
    IN  IF got = "throw" THEN [threw |-> TRUE, locals |-> st]
        ELSE IF got = "false" THEN [threw |-> FALSE, locals |-> st]
        ELSE csv_data_loop(csv_line(st, lines[k]), lines, k + 1)

\* the reading part of load_csv: header line, metadata line (only logged),
\* then the data lines
csv_read(lines) ==
    IF getline(lines, 1) = "throw" \/ getline(lines, 2) = "throw"
    THEN [threw |-> TRUE, locals |-> NoCsvLocals]
    ELSE csv_data_loop(NoCsvLocals, lines, 3)

CsvHeaderLine == <<"i", "d", ",", "o">>

CsvTexts ==
    { <<>>,
      <<CsvHeaderLine>>,
      <<CsvHeaderLine, <<"2", ",", "v">>>>,
      <<CsvHeaderLine, <<"2", ",", "v">>, <<"2", ",", "1", "6">>>>,
      <<CsvHeaderLine, <<"2", ",", "v">>, <<"4", ",", "2", "4">>, <<"2", ",", "1", "6">>>>,
      <<CsvHeaderLine, <<"x">>, <<"#", "c">>, <<"2", ",", " ", "1", "6">>, <<"2", ",", "2", "4">>>>,
      <<CsvHeaderLine, <<"2", ",", "v">>, <<"#", "c">>, <<"x">>, <<",", "5">>, <<"a", ",", "b">>, <<>>>>,
      <<CsvHeaderLine, <<"2", ",", "v">>, <<"5", ",", "0", "x", "1", "0">>,
        <<"5", ",", "0", "x", "2", "0">>>>,
      <<CsvHeaderLine, <<"1", ",", "v">>,
        <<"1", "2", "3", "4", "5", ",", "0", "x", "1", "A", "2", "B", "3", "C">>>>,
      <<CsvHeaderLine, <<"1", ",", "v">>, <<"1", "2", "a", "b", "c", ",", "1", "6">>>> }

\* gameVersion of a CSV image: the version its metadata label names
CsvImages == {Image("csv", 0, gv, 0, 0, t) : gv \in HostVersions, t \in CsvTexts}


(***************************************************************************)
(* The named region (REX::MemoryMap).  create(false, path, name) maps the  *)
(* file under the name; create(true, name, size) creates a zero-filled     *)
(* region of that size, or attaches to the region of that name when one    *)
(* exists already.  The caller that created it is its owner.  A region is  *)
(* [exists, prefix, data]: the words in front of the array the spans view  *)
(* (the count of a V0 file, the header of a V5 file), and the array.       *)
(***************************************************************************)
ZeroMappings(n) == [k \in 1..n |-> MAPPING(0, 0)]

FilePrefix(image) ==
    IF image.tag = 5
    THEN <<image.tag>> \o image.gameVersion \o <<image.pointerSize, image.count>>
    ELSE <<image.count>>

FileArray(image) == IF image.tag = 5 THEN image.offsets ELSE image.recs

mmap_create_file(reg, image) ==
    IF reg.exists THEN reg
    ELSE [exists |-> TRUE, prefix |-> FilePrefix(image), data |-> FileArray(image)]

mmap_create_named(reg, count) ==
    IF reg.exists THEN reg
    ELSE [exists |-> TRUE, prefix |-> <<>>, data |-> ZeroMappings(count)]

mmap_is_owner(reg) == ~reg.exists

(***************************************************************************)
(* validate_file: the blacklist of known-bad snapshots.  REX::SHA512 is    *)
(* taken to be collision-free: a digest is modelled by the content it is   *)
(* the digest of, and the two digests of g_blacklistMap by two snapshots.  *)
(***************************************************************************)
SHA512(prefix, data) == <<prefix, data>>

BadSnapshot980 == SHA512(<<1>>, <<MAPPING(1, 16)>>)
BadSnapshot159 == SHA512(<<1>>, <<MAPPING(2, 16)>>)

g_blacklistMap(l) ==
    IF l = "F4SE"
    THEN <<<<(<<1, 10, 980, 0>>), BadSnapshot980>>, <<(<<1, 11, 159, 0>>), BadSnapshot159>>>>
    ELSE <<>>

\* TRUE when validate_file ends in REX::FAIL
validate_file(l, v, reg) ==
    \E k \in 1..Len(g_blacklistMap(l)) :
        /\ v = g_blacklistMap(l)[k][1]
        /\ SHA512(reg.prefix, reg.data) = g_blacklistMap(l)[k][2]

(***************************************************************************)
(* Headers of the binary formats.                                          *)
(***************************************************************************)
HEADER_V2(image) ==
    [gameVersion |-> image.gameVersion, nameLen |-> image.nameLen,
     pointerSize |-> image.pointerSize, count |-> image.count]

\* m_gameVersion[k] after the name of image was stored through m_name[i]
\* with m_gameVersion laid out right behind m_name: a word the name bytes
\* cover holds those bytes, the word m_name[nameLen] falls in has its low
\* byte set to '\0'.  (The model's names end on a word boundary.)
name_overwrites(image, k) ==
    LET first == NameSize + 4 * (k - 1)
    IN  IF image.nameLen >= first + 4 THEN image.nameWords[k]
        ELSE IF image.nameLen = first
        THEN image.gameVersion[k] - (image.gameVersion[k] % 256)
        ELSE image.gameVersion[k]

\* the headers HEADER_V2::HEADER_V2 can leave: for nameLen < sizeof(m_name)
\* the fields as read; otherwise the stores through m_name[i] and
\* m_name[nameLen] go past the array, which is undefined: they land in
\* m_gameVersion as the members are declared, or the build keeps the
\* version as read.  m_pointerSize and m_addressCount are read afterwards.
HEADER_V2_reads(image) ==
    IF image.nameLen < NameSize THEN {HEADER_V2(image)}
    ELSE { HEADER_V2(image),
           [HEADER_V2(image) EXCEPT
               !.gameVersion = [k \in 1..4 |-> name_overwrites(image, k)]] }

HEADER_V5(image) ==
    [gameVersion |-> image.gameVersion, nameLen |-> image.nameLen,
     pointerSize |-> image.pointerSize, count |-> image.count]

\* game_version(): each u32 component cast to std::uint16_t
game_version(h) == [k \in 1..4 |-> h.gameVersion[k] % U16]

\* the path selection loop of IDDB::IDDB over g_rootMap[m_loader]
RECURSIVE select_path(_, _, _, _)
select_path(roots, k, l, d) ==
    IF k > Len(roots) THEN [format |-> Format_None, path |-> NoPath]
    ELSE IF d[<<roots[k], "bin">>] # NoFile
    THEN [format |-> IF l = "F4SE" /\ roots[k] = "version" THEN Format_V0 ELSE Format_None,
          path |-> <<roots[k], "bin">>]
    ELSE IF d[<<roots[k], "csv">>] # NoFile
    THEN [format |-> Format_CSV, path |-> <<roots[k], "csv">>]
    ELSE select_path(roots, k + 1, l, d)

\* mutant of unsupported_format: only the ends of the range are rejected
unsupported_format_ends(format) == format < 1 \/ format > 5

\* format < 1 || (format > 2 && format < 5) || format > 5
unsupported_format(format) ==
    format < 1 \/ (format > 2 /\ format < 5) \/ format > 5

(***************************************************************************)
(* IDDB::offset.                                                           *)
(***************************************************************************)
\* std::lower_bound(m_v0.begin(), m_v0.end(), elem, lhs.id < rhs.id): the
\* number of elements in front of the position it returns
RECURSIVE lower_bound_from(_, _, _, _)
lower_bound_from(span, first, count, a_id) ==
    IF count = 0 THEN first
    ELSE LET step == count \div 2
         IN  IF span[first + step + 1].id < a_id
             THEN lower_bound_from(span, first + step + 1, count - (step + 1), a_id)
             ELSE lower_bound_from(span, first, step, a_id)

\* mutant of lower_bound: std::upper_bound, the first element after a_id
RECURSIVE upper_bound_from(_, _, _, _)
upper_bound_from(span, first, count, a_id) ==
    IF count = 0 THEN first
    ELSE LET step == count \div 2
         IN  IF ~(a_id < span[first + step + 1].id)
             THEN upper_bound_from(span, first + step + 1, count - (step + 1), a_id)
             ELSE upper_bound_from(span, first, step, a_id)

lower_bound_as_upper_bound(span, a_id) == upper_bound_from(span, 0, Len(span), a_id)

lower_bound(span, a_id) == lower_bound_from(span, 0, Len(span), a_id)

Found(v) == [status |-> "ok", value |-> v]
Failed(e) == [status |-> e, value |-> 0]

\* the branch for the sorted formats (to_underlying(m_format) < 5)
offset_sorted(span, a_id) ==
    IF span = <<>> THEN Failed("NotLoaded")
    ELSE LET it == lower_bound(span, a_id)
         IN  IF it = Len(span) THEN Failed("IdNotFound")
             ELSE Found(span[it + 1].offset)

\* what m_v5[a_id] reads: the element inside the span; outside of it the
\* access is unchecked and reads whatever lies behind the array, or faults
Read(w) == [fault |-> FALSE, word |-> w]
StrayReads == {[fault |-> TRUE, word |-> 0]} \cup {Read(w) : w \in {0} \cup Offsets}

span_read(span, a_id) ==
    IF a_id < Len(span) THEN {Read(span[a_id + 1])} ELSE StrayReads

\* mutant of offset_dense: the stored word is returned without the zero test
offset_dense_unchecked(span, a_id, read) ==
    IF span = <<>> THEN Failed("NotLoaded")
    ELSE IF read.fault THEN Failed("AccessViolation")
    ELSE Found(read.word)

\* the branch for the dense format, given what m_v5[a_id] read
offset_dense(span, a_id, read) ==
    IF span = <<>> THEN Failed("NotLoaded")
    ELSE IF read.fault THEN Failed("AccessViolation")
    ELSE IF read.word = 0 THEN Failed("IdNotFound")
    ELSE Found(read.word)

\* std::sort by id: any arrangement of the same records in id order
Arrangements(recs) ==
    {[k \in 1..Len(recs) |-> recs[p[k]]] :
        p \in {q \in [1..Len(recs) -> 1..Len(recs)] :
                  \A i, j \in 1..Len(recs) : i # j => q[i] # q[j]}}

std_sort(recs) ==
    {t \in Arrangements(recs) : \A i \in 1..(Len(t) - 1) : t[i].id <= t[i + 1].id}

(***************************************************************************)
(* RelocationIDImpl<N> (REL/ID.h): a candidate set of N ids, one per       *)
(* runtime variant.  m_ids is std::array<std::uint64_t, N>; the model      *)
(* keeps it as a sequence, so slot i of the code is m_ids[i + 1].          *)
(***************************************************************************)
\* the widths the header names: RelocationID1 .. RelocationID4
Widths == {1, 2, 3, 4}

\* what get_runtime_index(), provided downstream, may return
RuntimeIndexes == 0..4

\* ids written into candidate sets
RelIds == {0, 1, 2}

\* std::array<std::uint64_t, N> m_ids{}
ZeroIds(N) == [k \in 1..N |-> 0]

\* RelocationIDImpl(Args... args): N == 1 keeps the first argument only,
\* otherwise the N arguments are copied into m_ids
RelocationIDImpl_args(N, args) ==
    IF N = 1 THEN <<args[1]>> ELSE [k \in 1..N |-> args[k]]

\* RelocationIDImpl(a_primary, a_secondary), N == 3 or N == 4: slots 0 and 1
\* are the arguments, slot 2 (and slot 3) is written as 0
RelocationIDImpl_two(N, a_primary, a_secondary) ==
    [k \in 1..N |-> IF k = 1 THEN a_primary ELSE IF k = 2 THEN a_secondary ELSE 0]

\* resolve_fallback: the first nonzero id in slot order, else 0
RECURSIVE resolve_fallback_from(_, _)
resolve_fallback_from(m_ids, k) ==
    IF k > Len(m_ids) THEN 0
    ELSE IF m_ids[k] # 0 THEN m_ids[k]
    ELSE resolve_fallback_from(m_ids, k + 1)

\* mutant of resolve_fallback: no slot is searched
resolve_fallback_none(m_ids) == 0

resolve_fallback(m_ids) == resolve_fallback_from(m_ids, 1)

\* mutant of resolve_fallback_for_runtime: the primary slot is not tried
resolve_fallback_skips_primary(m_ids, a_runtime_index) ==
    IF a_runtime_index + 2 > Len(m_ids) THEN 0
    ELSE resolve_fallback_from(m_ids, a_runtime_index + 2)

\* resolve_fallback_for_runtime: slot 0 if the index is not 0 and slot 0 is
\* nonzero; otherwise resolve_fallback
resolve_fallback_for_runtime(m_ids, a_runtime_index) ==
    IF a_runtime_index > 0 /\ m_ids[1] # 0 THEN m_ids[1]
    ELSE resolve_fallback(m_ids)

\* mutant of resolve_id: a nonzero slot 0 is preferred to the indexed slot
resolve_id_prefers_primary(m_ids, a_runtime_index) ==
    IF m_ids[1] # 0 THEN m_ids[1] ELSE resolve_fallback(m_ids)

\* mutant of resolve_id: an index outside the set resolves to 0
resolve_id_outside_is_zero(m_ids, a_runtime_index) ==
    IF a_runtime_index >= Len(m_ids) THEN 0
    ELSE IF m_ids[a_runtime_index + 1] = 0
    THEN resolve_fallback_for_runtime(m_ids, a_runtime_index)
    ELSE m_ids[a_runtime_index + 1]

\* resolve_id(a_runtime_index)
resolve_id(m_ids, a_runtime_index) ==
    IF a_runtime_index >= Len(m_ids) THEN resolve_fallback(m_ids)
    ELSE IF m_ids[a_runtime_index + 1] = 0
    THEN resolve_fallback_for_runtime(m_ids, a_runtime_index)
    ELSE m_ids[a_runtime_index + 1]

\* raw_id(a_index): the slot itself, 0 outside the set
raw_id(m_ids, a_index) == IF a_index < Len(m_ids) THEN m_ids[a_index + 1] ELSE 0


(***************************************************************************)
(* VariantID<N>: N ids, one per runtime, kept in _ids.                     *)
(***************************************************************************)
\* VariantID(Args... args), sizeof...(Args) == N
VariantID_args(N, args) == [k \in 1..N |-> args[k]]

\* VariantID(first, second), N == 3: _ids{first, second, first}
VariantID_two(first, second) == <<first, second, first>>

\* mutant of VariantID_get: a zero slot falls back to the first nonzero id
VariantID_get_scans(ids, runtime_index) ==
    IF runtime_index >= Len(ids) THEN 0
    ELSE IF ids[runtime_index + 1] # 0 THEN ids[runtime_index + 1]
    ELSE resolve_fallback_from(ids, 1)

\* VariantID::get(runtime_index)
VariantID_get(ids, runtime_index) ==
    IF runtime_index >= Len(ids) THEN 0
    ELSE IF ids[runtime_index + 1] # 0 THEN ids[runtime_index + 1]
    ELSE ids[1]


(***************************************************************************)
(* State.                                                                  *)
(***************************************************************************)
VARIABLES
    loader,      \* the loader the plugins run under (from the plugin path)
    version,     \* mod->version(): the version of the live host binary
    disk,        \* FileNames -> image: the files next to the plugins
    orig,        \* the records the producer of a V2 file encodes into it
    region,      \* the named region COMMONLIB_IDDB_OFFSETS_<version>
    pc,          \* caller -> position of its IDDB constructor / instance
    err,         \* caller -> the fatal error REX::FAIL reported, or "None"
    m_loader,    \* caller -> IDDB::m_loader
    m_path,      \* caller -> IDDB::m_path
    m_format,    \* caller -> IDDB::m_format
    m_v0,        \* caller -> IDDB::m_v0, a span over the region's array
    m_v5,        \* caller -> IDDB::m_v5, a span over the region's array
    is_owner,    \* caller -> m_mmap.is_owner()
    header,      \* caller -> the HEADER_V2 / HEADER_V5 it parsed
    unpack,      \* caller -> locals of unpack_file: [i, prevID, prevOffset]
    decodeRuns,  \* history: number of unpack_file calls in the process
    validated,   \* history: caller -> what its validate_file call hashed
    last,        \* history: the latest offset() call and what it returned
    csv,         \* history: caller -> locals of load_csv when it was left
    rel          \* a RelocationIDImpl<N> object and the latest call on it

vars == <<loader, version, disk, orig, region, pc, err, m_loader, m_path, m_format,
          m_v0, m_v5, is_owner, header, unpack, decodeRuns, validated, last,
          csv, rel>>

env == <<loader, version, disk, orig>>

NoRegion == [exists |-> FALSE, prefix |-> <<>>, data |-> <<>>]
NoUnpack == [i |-> 0, prevID |-> 0, prevOffset |-> 0]
NotValidated == [called |-> FALSE, prefix |-> <<>>, data |-> <<>>]
NoCsv == [called |-> FALSE, threw |-> FALSE, locals |-> NoCsvLocals]
NoRelCall == [op |-> "None", index |-> 0, value |-> 0]

\* constexpr RelocationIDImpl() noexcept = default, on a set of width N
RelocationIDImpl_default(N) ==
    [N |-> N, m_ids |-> ZeroIds(N), ctor |-> "default", args |-> <<>>,
     call |-> NoRelCall]

\* REL::RelocationID with REL_DEFAULT_RUNTIME_COUNT 1
NoRel == RelocationIDImpl_default(1)
NoCall == [caller |-> 0, id |-> 0, dense |-> FALSE, status |-> "None",
           value |-> 0, view |-> <<>>, outside |-> FALSE]

Disk(name, image) == [f \in FileNames |-> IF f = name THEN image ELSE NoFile]

\* a loader, and the one database file installed for it, on a host of
\* version v
Installations(v) ==
    {<<"F4SE", Disk(<<"version", "bin">>, img)>> : img \in V0Images}
    \cup {<<"F4SE", Disk(<<"version", "csv">>, img)>> : img \in CsvImages}
    \cup {<<"SKSE", Disk(<<"versionlib", "bin">>, img)>> :
             img \in V2Images(v) \cup V5Images(v) \cup UnknownTagImages}
    \cup {<<"SKSE", Disk(<<"version", "bin">>, img)>> : img \in UnknownTagImages}
    \cup {<<"SFSE", Disk(<<"versionlib", "csv">>, img)>> : img \in CsvImages}
    \cup {<<"OBSE", Disk(<<"version", "bin">>, img)>> : img \in UnknownTagImages}
    \cup {<<"None", Disk(<<"version", "bin">>, img)>> : img \in UnknownTagImages}

\* installations with two database files next to the plugins
TwoFiles(n1, img1, n2, img2) ==
    [f \in FileNames |-> IF f = n1 THEN img1 ELSE IF f = n2 THEN img2 ELSE NoFile]

TwoFileInstallations(v) ==
    LET text == <<CsvHeaderLine, <<"1", ",", "v">>, <<"2", ",", "1", "6">>>>
        csvImg == Image("csv", 0, v, 0, 0, text)
        v2Img == Image("v2", 2, v, 8, 1, <<Group(0, 2, 16)>>)
        v5Img == Image("v5", 5, v, 8, 1, <<16>>)
        v0Img == Image("v0", 0, NoVersion, 0, 1, <<MAPPING(2, 16)>>)
    IN  {<<"SKSE", TwoFiles(<<"versionlib", "csv">>, csvImg, <<"version", "bin">>, v2Img)>>,
         <<"SKSE", TwoFiles(<<"versionlib", "bin">>, v5Img, <<"versionlib", "csv">>, csvImg)>>,
         <<"SKSE", TwoFiles(<<"version", "bin">>, v2Img, <<"version", "csv">>, csvImg)>>,
         <<"F4SE", TwoFiles(<<"version", "bin">>, v0Img, <<"version", "csv">>, csvImg)>>}

InitCallers ==
    /\ region = NoRegion
    /\ pc = [c \in Callers |-> "ctor"]
    /\ err = [c \in Callers |-> "None"]
    /\ m_loader = [c \in Callers |-> "None"]
    /\ m_path = [c \in Callers |-> NoPath]
    /\ m_format = [c \in Callers |-> Format_None]
    /\ m_v0 = [c \in Callers |-> EmptySpan]
    /\ m_v5 = [c \in Callers |-> EmptySpan]
    /\ is_owner = [c \in Callers |-> FALSE]
    /\ header = [c \in Callers |-> NoHeader]
    /\ unpack = [c \in Callers |-> NoUnpack]
    /\ decodeRuns = 0
    /\ validated = [c \in Callers |-> NotValidated]
    /\ last = NoCall
    /\ csv = [c \in Callers |-> NoCsv]

Init ==
    /\ version \in HostVersions
    /\ \E inst \in Installations(version) \cup TwoFileInstallations(version) :
          loader = inst[1] /\ disk = inst[2]
    /\ orig = <<>>
    /\ rel = NoRel
    /\ InitCallers


(***************************************************************************)
(* Actions.  REX::FAIL reports the error and terminates the process: once  *)
(* a caller has failed, no caller takes another step.                      *)
(***************************************************************************)
Running == \A c \in Callers : pc[c] # "failed"

FAIL(c, e) ==
    /\ pc' = [pc EXCEPT ![c] = "failed"]
    /\ err' = [err EXCEPT ![c] = e]

Goto(c, label) ==
    /\ pc' = [pc EXCEPT ![c] = label]
    /\ err' = err

LoadLabel(format) ==
    CASE format = Format_V0 -> "load_v0"
      [] format = Format_CSV -> "load_csv"
      [] format = Format_V5 -> "load_v5"
      [] OTHER -> "load_v2"

\* IDDB::IDDB up to the call of the format's loader
IDDB(c) ==
    /\ Running
    /\ pc[c] = "ctor"
    /\ m_loader' = [m_loader EXCEPT ![c] = loader]
    /\ LET sel == select_path(g_rootMap(loader), 1, loader, disk)
           tag == disk[sel.path].tag
       IN  IF loader \notin Loaders
           THEN FAIL(c, "UnknownLoader") /\ UNCHANGED <<m_path, m_format>>
           ELSE IF sel.path = NoPath
           THEN FAIL(c, "PathNotFound") /\ UNCHANGED <<m_path, m_format>>
           ELSE /\ m_path' = [m_path EXCEPT ![c] = sel.path]
                /\ IF sel.format \in {Format_V0, Format_CSV}
                   THEN /\ m_format' = [m_format EXCEPT ![c] = sel.format]
                        /\ Goto(c, LoadLabel(sel.format))
                   ELSE IF unsupported_format(tag)
                   THEN FAIL(c, "UnsupportedFormat") /\ UNCHANGED m_format
                   ELSE /\ m_format' = [m_format EXCEPT ![c] = tag]
                        /\ Goto(c, LoadLabel(tag))
    /\ UNCHANGED <<env, rel, csv, region, m_v0, m_v5, is_owner, header, unpack,
                   decodeRuns, validated, last>>

Hashed(reg) == [called |-> TRUE, prefix |-> reg.prefix, data |-> reg.data]

\* load_v0: map the file, validate it, view the records behind the count
load_v0(c) ==
    /\ Running
    /\ pc[c] = "load_v0"
    /\ \E created \in BOOLEAN :
        IF ~created
        THEN /\ FAIL(c, "SharedRegionCreationFailed")
             /\ UNCHANGED <<region, is_owner, validated, m_v0>>
        ELSE /\ region' = mmap_create_file(region, disk[m_path[c]])
             /\ is_owner' = [is_owner EXCEPT ![c] = mmap_is_owner(region)]
             /\ validated' = [validated EXCEPT ![c] = Hashed(region')]
             /\ IF validate_file(m_loader[c], version, region')
                THEN FAIL(c, "BlacklistedDatabase") /\ UNCHANGED m_v0
                ELSE /\ m_v0' = [m_v0 EXCEPT ![c] = [len |-> region'.prefix[1]]]
                     /\ Goto(c, "loaded")
    /\ UNCHANGED <<env, rel, csv, m_loader, m_path, m_format, m_v5, header, unpack,
                   decodeRuns, last>>

\* load_v5: parse the header, check the version, map the file, validate
\* it, view the offsets behind the header
load_v5(c) ==
    /\ Running
    /\ pc[c] = "load_v5"
    /\ LET h == HEADER_V5(disk[m_path[c]])
       IN  /\ header' = [header EXCEPT ![c] = h]
           /\ IF game_version(h) # version
              THEN /\ FAIL(c, "VersionMismatch")
                   /\ UNCHANGED <<region, is_owner, validated, m_v5>>
              ELSE \E created \in BOOLEAN :
                   IF ~created
                   THEN /\ FAIL(c, "SharedRegionCreationFailed")
                        /\ UNCHANGED <<region, is_owner, validated, m_v5>>
                   ELSE /\ region' = mmap_create_file(region, disk[m_path[c]])
                        /\ is_owner' = [is_owner EXCEPT ![c] = mmap_is_owner(region)]
                        /\ validated' = [validated EXCEPT ![c] = Hashed(region')]
                        /\ IF validate_file(m_loader[c], version, region')
                           THEN FAIL(c, "BlacklistedDatabase") /\ UNCHANGED m_v5
                           ELSE /\ m_v5' = [m_v5 EXCEPT ![c] = [len |-> h.count]]
                                /\ Goto(c, "loaded")
    /\ UNCHANGED <<env, rel, csv, m_loader, m_path, m_format, m_v0, unpack, decodeRuns, last>>


\* load_v2, first part: parse the header, check the version, create the
\* named region of address_count records or attach to it
load_v2(c) ==
    /\ Running
    /\ pc[c] = "load_v2"
    /\ \E h \in HEADER_V2_reads(disk[m_path[c]]) :
           /\ header' = [header EXCEPT ![c] = h]
           /\ IF game_version(h) # version
              THEN FAIL(c, "VersionMismatch") /\ UNCHANGED <<region, is_owner>>
              ELSE \E created \in BOOLEAN :
                   IF ~created
                   THEN FAIL(c, "SharedRegionCreationFailed") /\ UNCHANGED <<region, is_owner>>
                   ELSE /\ region' = mmap_create_named(region, h.count)
                        /\ is_owner' = [is_owner EXCEPT ![c] = mmap_is_owner(region)]
                        /\ Goto(c, "validate")
    /\ UNCHANGED <<env, rel, csv, m_loader, m_path, m_format, m_v0, m_v5, unpack,
                   decodeRuns, validated, last>>

\* mutant of owner_decodes: every caller decodes into the region
owner_decodes_always(c) == TRUE

\* mutant of owner_decodes: the caller that attached decodes, not the owner
attacher_decodes(c) == ~is_owner[c]

\* if (m_mmap.is_owner()): who runs unpack_file and std::sort
owner_decodes(c) == is_owner[c]

\* load_v2, second part: validate_file on the region as it is now, set the
\* span, and enter unpack_file when this caller is to decode
load_v2_validate(c) ==
    /\ Running
    /\ pc[c] = "validate"
    /\ validated' = [validated EXCEPT ![c] = Hashed(region)]
    /\ IF validate_file(m_loader[c], version, region)
       THEN FAIL(c, "BlacklistedDatabase") /\ UNCHANGED <<m_v0, unpack, decodeRuns>>
       ELSE /\ m_v0' = [m_v0 EXCEPT ![c] = [len |-> header[c].count]]
            /\ IF owner_decodes(c)
               THEN /\ decodeRuns' = decodeRuns + 1
                    /\ unpack' = [unpack EXCEPT ![c] = NoUnpack]
                    /\ Goto(c, IF header[c].count = 0 THEN "sort" ELSE "unpack")
               ELSE /\ UNCHANGED <<unpack, decodeRuns>>
                    /\ Goto(c, "loaded")
    /\ UNCHANGED <<env, rel, csv, region, m_loader, m_path, m_format, m_v5, is_owner, header, last>>

\* mutant of id_kind_handled: the default case does not stop the decoder
id_kind_default_ignored(lo) == TRUE

\* switch (lo) has a case for the id kind; otherwise its default is taken
id_kind_handled(lo) == lo \in 0..7

\* switch (hi & 7) has a case for the offset kind
offset_kind_handled(hi) == (hi % 8) \in 0..7

\* unpack_file: one pass of the loop over m_v0.  An integer division by
\* zero is undefined: the build either traps, which ends the process, or
\* goes on with a quotient.
unpack_file(c) ==
    /\ Running
    /\ pc[c] = "unpack"
    /\ LET u == unpack[c]
           stream == disk[m_path[c]].stream
           group == stream[u.i + 1]
           lo == lo_nibble(group.type)
           hi == hi_nibble(group.type)
           id == unpack_id(lo, u.prevID, group.idArg)
           off == unpack_offset(hi, u.prevOffset, group.offArg, header[c].pointerSize)
       IN  IF u.i + 1 > Len(stream)
           THEN FAIL(c, "FileNotOpenable") /\ UNCHANGED <<region, unpack>>
           ELSE IF ~id_kind_handled(lo) \/ ~offset_kind_handled(hi)
           THEN FAIL(c, "MalformedStream") /\ UNCHANGED <<region, unpack>>
           ELSE \E trapped \in (IF divides_by_zero(hi, header[c].pointerSize)
                                 THEN BOOLEAN ELSE {FALSE}) :
                IF trapped
                THEN FAIL(c, "DivideByZero") /\ UNCHANGED <<region, unpack>>
                ELSE /\ region' = [region EXCEPT !.data[u.i + 1] = MAPPING(id, off)]
                     /\ unpack' = [unpack EXCEPT ![c] =
                                      [i |-> u.i + 1, prevID |-> id, prevOffset |-> off]]
                     /\ Goto(c, IF u.i + 1 = m_v0[c].len THEN "sort" ELSE "unpack")
    /\ UNCHANGED <<env, rel, csv, m_loader, m_path, m_format, m_v0, m_v5, is_owner, header,
                   decodeRuns, validated, last>>

\* the std::sort of load_v2 that follows unpack_file
load_v2_sort(c) ==
    /\ Running
    /\ pc[c] = "sort"
    /\ \E sorted \in std_sort(region.data) : region' = [region EXCEPT !.data = sorted]
    /\ Goto(c, "loaded")
    /\ UNCHANGED <<env, rel, csv, m_loader, m_path, m_format, m_v0, m_v5, is_owner, header,
                   unpack, decodeRuns, validated, last>>

\* load_csv: read the lines; when the reading loop is left normally, sort
\* the mappings, create the named region or attach to it, copy them in
load_csv(c) ==
    /\ Running
    /\ pc[c] = "load_csv"
    /\ LET r == csv_read(disk[m_path[c]].lines)
           mappings == r.locals.mappings
       IN  /\ csv' = [csv EXCEPT ![c] = [called |-> TRUE, threw |-> r.threw,
                                         locals |-> r.locals]]
           /\ IF r.threw
              THEN FAIL(c, "FileNotOpenable") /\ UNCHANGED <<region, is_owner, m_v0>>
              ELSE IF mappings = <<>>
              THEN FAIL(c, "EmptyDatabase") /\ UNCHANGED <<region, is_owner, m_v0>>
              ELSE \E created \in BOOLEAN, sorted \in std_sort(mappings) :
                   IF ~created
                   THEN /\ FAIL(c, "SharedRegionCreationFailed")
                        /\ UNCHANGED <<region, is_owner, m_v0>>
                   ELSE /\ region' = [mmap_create_named(region, Len(sorted))
                                         EXCEPT !.data = sorted]
                        /\ is_owner' = [is_owner EXCEPT ![c] = mmap_is_owner(region)]
                        /\ m_v0' = [m_v0 EXCEPT ![c] = [len |-> Len(sorted)]]
                        /\ Goto(c, "loaded")
    /\ UNCHANGED <<env, rel, m_loader, m_path, m_format, m_v5, header, unpack,
                   decodeRuns, validated, last>>

\* the elements a span views
Span(c, span) == SubSeq(region.data, 1, span[c].len)

\* mutant of offset_frame: a lookup empties the span over the sorted store
offset_clears_store ==
    /\ m_v0' = [c \in Callers |-> [len |-> 0]]
    /\ UNCHANGED <<env, csv, region, m_loader, m_path, m_format, m_v5, is_owner,
                   header, unpack, decodeRuns, validated>>

\* what IDDB::offset, a const member function, leaves as it was: the
\* mapped region and every member of the instance
offset_frame ==
    UNCHANGED <<env, csv, region, m_loader, m_path, m_format, m_v0, m_v5, is_owner,
                header, unpack, decodeRuns, validated>>

\* IDDB::offset(a_id) on a constructed instance; rel is left to the caller
offset(c, a_id) ==
    /\ Running
    /\ pc[c] = "loaded"
    /\ LET dense == ~(m_format[c] < 5)
           span == IF dense THEN Span(c, m_v5) ELSE Span(c, m_v0)
       IN  \E read \in (IF dense THEN span_read(span, a_id) ELSE {Read(0)}) :
             LET r == IF dense THEN offset_dense(span, a_id, read)
                      ELSE offset_sorted(span, a_id)
             IN  /\ last' = [caller |-> c, id |-> a_id, dense |-> dense,
                             status |-> r.status, value |-> r.value, view |-> span,
                             outside |-> dense /\ span # <<>> /\ ~(a_id < Len(span))]
                 /\ IF r.status = "ok" THEN Goto(c, "loaded") ELSE FAIL(c, r.status)
    /\ offset_frame

\* REL::ID::offset(): iddb->offset(m_id)
ID_offset(c, m_id) == offset(c, m_id) /\ UNCHANGED rel

Next ==
    \E c \in Callers :
        \/ IDDB(c)
        \/ load_v0(c)
        \/ load_v2(c)
        \/ load_v2_validate(c)
        \/ unpack_file(c)
        \/ load_v2_sort(c)
        \/ load_v5(c)
        \/ load_csv(c)
        \/ \E m_id \in QueryIds : ID_offset(c, m_id)

Spec == Init /\ [][Next]_vars


(***************************************************************************)
(* The codec on its own: a producer writes a V2 file for the records orig  *)
(* by the encoding rules of the format, choosing freely among the kinds    *)
(* that can express a record, and one caller then loads the file.          *)
(***************************************************************************)
U8Max == 255
U16Max == U16 - 1

PointerSizes == {4, 8}

CodecRecords == {MAPPING(1, 1), MAPPING(2, 16), MAPPING(300, 20), MAPPING(70000, 2400)}

CodecFile == <<"versionlib", "bin">>

\* the kinds, with their payload, that express value after base
DeltaEncodings(base, value) ==
    {[kind |-> 0, arg |-> value], [kind |-> 7, arg |-> value]}
    \cup (IF value = base + 1 THEN {[kind |-> 1, arg |-> 0]} ELSE {})
    \cup (IF value >= base /\ value - base <= U8Max
          THEN {[kind |-> 2, arg |-> value - base]} ELSE {})
    \cup (IF base >= value /\ base - value <= U8Max
          THEN {[kind |-> 3, arg |-> base - value]} ELSE {})
    \cup (IF value >= base /\ value - base <= U16Max
          THEN {[kind |-> 4, arg |-> value - base]} ELSE {})
    \cup (IF base >= value /\ base - value <= U16Max
          THEN {[kind |-> 5, arg |-> base - value]} ELSE {})
    \cup (IF value <= U16Max THEN {[kind |-> 6, arg |-> value]} ELSE {})

\* high nibbles, with their payload, that express offset after prevOffset:
\* the plain kinds, and the pointer-scaled ones when offset is a multiple
\* of the pointer size
OffsetEncodings(prevOffset, off, pointer_size) ==
    {[hi |-> e.kind, arg |-> e.arg] : e \in DeltaEncodings(prevOffset, off)}
    \cup (IF off % pointer_size = 0
          THEN {[hi |-> 8 + e.kind, arg |-> e.arg] :
                   e \in DeltaEncodings(prevOffset \div pointer_size, off \div pointer_size)}
          ELSE {})

Encodings(prev, rec, pointer_size) ==
    {Group(i.kind + 16 * o.hi, i.arg, o.arg) :
        i \in DeltaEncodings(prev.id, rec.id),
        o \in OffsetEncodings(prev.offset, rec.offset, pointer_size)}

\* control bytes whose low nibble no id kind uses
MalformedTypes == {lo + 16 * hi : lo \in 8..15, hi \in {0, 15}}

Produced == Len(disk[CodecFile].stream) = Len(orig)

InitCodec ==
    /\ loader = "SKSE"
    /\ version = <<1, 10, 163, 0>>
    /\ orig \in SeqsUpTo(CodecRecords, MaxRecs)
    /\ \E ptr \in PointerSizes :
          disk = Disk(CodecFile, Image("v2", 2, version, ptr, Len(orig), <<>>))
    /\ rel = NoRel
    /\ InitCallers

WriteGroup(g) ==
    /\ disk' = [disk EXCEPT ![CodecFile].stream = Append(@, g)]
    /\ UNCHANGED <<loader, version, orig, region, pc, err, m_loader, m_path, m_format,
                   m_v0, m_v5, is_owner, header, unpack, decodeRuns, validated, last,
                   csv, rel>>

\* the producer appends the group of the next record
encode_record ==
    /\ ~Produced
    /\ LET stream == disk[CodecFile].stream
           k == Len(stream) + 1
           prev == IF k = 1 THEN MAPPING(0, 0) ELSE orig[k - 1]
       IN  \E g \in Encodings(prev, orig[k], disk[CodecFile].pointerSize) : WriteGroup(g)

\* a file damaged at the next record: a control byte with an unused id kind
emit_malformed ==
    /\ ~Produced
    /\ \A k \in 1..Len(disk[CodecFile].stream) :
          id_kind_handled(lo_nibble(disk[CodecFile].stream[k].type))
    /\ \E t \in MalformedTypes : WriteGroup(Group(t, 0, 0))

\* the caller that loads the produced file
Reader == CHOOSE c \in Callers : \A d \in Callers : c <= d

NextCodec ==
    \/ encode_record
    \/ emit_malformed
    \/ Produced /\ IDDB(Reader)
    \/ Produced /\ load_v2(Reader)
    \/ Produced /\ load_v2_validate(Reader)
    \/ Produced /\ unpack_file(Reader)
    \/ Produced /\ load_v2_sort(Reader)

SpecCodec == InitCodec /\ [][NextCodec]_vars

(***************************************************************************)
(* Candidate sets on their own: a RelocationIDImpl<N> object is built by   *)
(* one of its constructors and its members are called, while one caller    *)
(* constructs the IDDB singleton over a legacy or a dense database.        *)
(***************************************************************************)
iddb == <<env, region, pc, err, m_loader, m_path, m_format, m_v0, m_v5, is_owner,
          header, unpack, decodeRuns, validated, last, csv>>

IDInstallations ==
    {<<"F4SE", Disk(<<"version", "bin">>, Image("v0", 0, NoVersion, 0, Len(r), r))>> :
        r \in {<<>>, <<MAPPING(2, 16)>>}}
    \cup {<<"SKSE", Disk(<<"versionlib", "bin">>,
                         Image("v5", 5, <<1, 10, 163, 0>>, 8, Len(a), a))>> :
             a \in {<<>>, <<16>>, <<0, 16>>}}

InitID ==
    /\ version = <<1, 10, 163, 0>>
    /\ \E inst \in IDInstallations : loader = inst[1] /\ disk = inst[2]
    /\ orig = <<>>
    /\ \E N \in Widths : rel = RelocationIDImpl_default(N)
    /\ InitCallers

Constructed(m_ids, how, args) ==
    /\ rel.ctor = "default"
    /\ rel.call = NoRelCall
    /\ rel' = [rel EXCEPT !.m_ids = m_ids, !.ctor = how, !.args = args]
    /\ UNCHANGED iddb

\* RelocationIDImpl x{args...}: one argument or more for N == 1, N
\* arguments otherwise
Construct_args ==
    /\ Running
    /\ \E n \in (IF rel.N = 1 THEN {1, 2} ELSE {rel.N}) :
         \E args \in [1..n -> RelIds] :
           Constructed(RelocationIDImpl_args(rel.N, args), "args", args)

\* RelocationIDImpl x{a_primary, a_secondary} on a set of width 3 or 4
Construct_two ==
    /\ Running
    /\ rel.N \in {3, 4}
    /\ \E a_primary \in RelIds, a_secondary \in RelIds :
         Constructed(RelocationIDImpl_two(rel.N, a_primary, a_secondary), "two",
                     <<a_primary, a_secondary>>)

\* the members called are const: a behaviour follows the object up to its
\* first call, which rel.call records
Returned(op, index, value) ==
    /\ rel.call = NoRelCall
    /\ rel' = [rel EXCEPT !.call = [op |-> op, index |-> index, value |-> value]]
    /\ UNCHANGED iddb

Call_resolve_id ==
    /\ Running
    /\ \E i \in RuntimeIndexes : Returned("resolve_id", i, resolve_id(rel.m_ids, i))

\* operator[](a_index): resolve_id(a_index)
Call_subscript ==
    /\ Running
    /\ \E i \in RuntimeIndexes : Returned("operator[]", i, resolve_id(rel.m_ids, i))

\* id(): resolve_id(get_current_runtime_index())
Call_id ==
    /\ Running
    /\ \E runtime_index \in RuntimeIndexes :
          Returned("id", runtime_index, resolve_id(rel.m_ids, runtime_index))

Call_raw_id ==
    /\ Running
    /\ \E i \in RuntimeIndexes : Returned("raw_id", i, raw_id(rel.m_ids, i))

\* RelocationIDImpl::offset(): iddb->offset(id())
RelocationIDImpl_offset(c) ==
    /\ pc[c] = "loaded"
    /\ rel.call = NoRelCall
    /\ \E runtime_index \in RuntimeIndexes :
      LET id == resolve_id(rel.m_ids, runtime_index)
      IN  /\ offset(c, id)
          /\ rel' = [rel EXCEPT !.call = [op |-> "offset", index |-> runtime_index,
                                          value |-> id]]

\* RelocationIDImpl::address(): mod->base() + offset()
RelocationIDImpl_address(c) ==
    /\ pc[c] = "loaded"
    /\ rel.call = NoRelCall
    /\ \E runtime_index \in RuntimeIndexes :
      LET id == resolve_id(rel.m_ids, runtime_index)
      IN  /\ offset(c, id)
          /\ rel' = [rel EXCEPT !.call = [op |-> "address", index |-> runtime_index,
                                          value |-> id]]

NextID ==
    \/ IDDB(Reader)
    \/ load_v0(Reader)
    \/ load_v5(Reader)
    \/ Construct_args
    \/ Construct_two
    \/ Call_resolve_id
    \/ Call_subscript
    \/ Call_id
    \/ Call_raw_id
    \/ RelocationIDImpl_offset(Reader)
    \/ RelocationIDImpl_address(Reader)

SpecID == InitID /\ [][NextID]_vars

(***************************************************************************)
(* VariantID on its own: rel is a VariantID<N> object, built by one of its *)
(* constructors, and get is called on it.                                  *)
(***************************************************************************)
InitVariant ==
    /\ version = <<1, 10, 163, 0>>
    /\ loader = "SKSE"
    /\ disk = Disk(<<"versionlib", "bin">>, Image("v5", 5, version, 8, 1, <<16>>))
    /\ orig = <<>>
    /\ \E N \in Widths : rel = RelocationIDImpl_default(N)
    /\ InitCallers

\* VariantID x{args...} and VariantID x{std::array}
VariantID_construct_args ==
    /\ Running
    /\ \E args \in [1..rel.N -> RelIds] :
         Constructed(VariantID_args(rel.N, args), "args", args)

\* VariantID x{first, second} on a set of width 3
VariantID_construct_two ==
    /\ rel.N = 3
    /\ \E first \in RelIds, second \in RelIds :
         Constructed(VariantID_two(first, second), "two", <<first, second>>)

\* x.get(runtime_index)
Call_get ==
    /\ Running
    /\ \E runtime_index \in RuntimeIndexes :
         Returned("get", runtime_index, VariantID_get(rel.m_ids, runtime_index))

NextVariant ==
    \/ VariantID_construct_args
    \/ VariantID_construct_two
    \/ Call_get

SpecVariant == InitVariant /\ [][NextVariant]_vars

(***************************************************************************)
(* Claims about lookups.  last is the latest offset() call: the id asked   *)
(* for, the elements the span viewed at the call, and the result.          *)
(***************************************************************************)
Called == last.status # "None"
OnSortedStore == Called /\ ~last.dense /\ last.view # <<>> /\ IsAscending(last.view)
OnDenseStore == Called /\ last.dense /\ last.view # <<>>
IdsOf(recs) == {recs[k].id : k \in 1..Len(recs)}

\* C1: in a sorted-array store, offset(id) for an id that no record of the
\* store carries fails with IdNotFound and returns no offset
C1_AbsentIdIsNotFound ==
    (OnSortedStore /\ last.id \notin IdsOf(last.view)) => last.status = "IdNotFound"

\* C2: in a sorted-array store with unique ascending ids, offset(id)
\* returns exactly the stored offset of every id the store holds
C2_PresentIdReturnsStoredOffset ==
    OnSortedStore =>
        \A k \in 1..Len(last.view) :
            last.view[k].id = last.id =>
                last.status = "ok" /\ last.value = last.view[k].offset

C2_Witness ==
    /\ OnSortedStore
    /\ Len(last.view) >= 2
    /\ last.view[2].id = last.id
    /\ last.status = "ok"

\* C3: in a dense store, offset(id) for an id inside the array fails with
\* IdNotFound when the stored value is 0 and returns the stored value
\* unchanged otherwise
C3_DenseLookupInsideArray ==
    (OnDenseStore /\ last.id < Len(last.view)) =>
        IF last.view[last.id + 1] = 0
        THEN last.status = "IdNotFound"
        ELSE last.status = "ok" /\ last.value = last.view[last.id + 1]

C3_Witness ==
    /\ OnDenseStore
    /\ Len(last.view) >= 2
    /\ last.id = 1
    /\ last.view[1] # 0
    /\ last.view[2] = 0
    /\ last.status = "IdNotFound"

\* C4: in a dense store of n offsets, offset(id) for id >= n fails with
\* IdNotFound and reads no position outside the array
C4_OutOfRangeIdIsNotFound ==
    (OnDenseStore /\ last.id >= Len(last.view)) =>
        last.status = "IdNotFound" /\ ~last.outside

(***************************************************************************)
(* Claims about the load.                                                  *)
(***************************************************************************)
Compressed(c) == m_format[c] \in {Format_V1, Format_V2}
AllLoaded == \A c \in Callers : pc[c] = "loaded"

\* C5: when the callers race on the first load of a compressed database,
\* exactly one of them owns the region and unpack_file runs exactly once;
\* the others attach without decoding, and once all loads have finished
\* all callers view the same records
C5_DecodedExactlyOnce ==
    /\ decodeRuns <= 1
    /\ \A c \in Callers : pc[c] \in {"unpack", "sort"} => is_owner[c]
    /\ (AllLoaded /\ \A c \in Callers : Compressed(c)) =>
          /\ decodeRuns = 1
          /\ Cardinality({c \in Callers : is_owner[c]}) = 1
          /\ \A c, d \in Callers : Span(c, m_v0) = Span(d, m_v0)

C5_Witness ==
    /\ AllLoaded
    /\ \A c \in Callers : Compressed(c)
    /\ \E c \in Callers : ~is_owner[c]
    /\ Len(region.data) >= 2
    /\ decodeRuns = 1

\* C6: a caller that attached to the region as non-owner never has its
\* load complete, nor a lookup served, before the owner has finished
\* decoding and sorting the region
C6_AttachWaitsForOwner ==
    /\ \A c \in Callers :
          (pc[c] = "loaded" /\ Compressed(c) /\ ~is_owner[c] /\ m_v0[c].len > 0) =>
              \E o \in Callers : is_owner[o] /\ pc[o] = "loaded"
    /\ (Called /\ ~last.dense) => \A k \in 1..(Len(last.view) - 1) :
                                     last.view[k].id <= last.view[k + 1].id

\* C7: on every load path a database whose declared target version differs
\* from the host version in any component never reaches the loaded state
C7_WrongVersionNeverLoads ==
    \A c \in Callers :
        (pc[c] = "loaded" /\ m_format[c] # Format_V0) =>
            disk[m_path[c]].gameVersion = version

\* C8: the blacklist check is applied to the final content of the region,
\* and no load whose final content is blacklisted completes
C8_ValidatedFinalContent ==
    AllLoaded =>
        \A c \in Callers :
            /\ validated[c] = Hashed(region)
            /\ ~validate_file(m_loader[c], version, region)


(***************************************************************************)
(* Claims about the delta codec (under SpecCodec).                         *)
(***************************************************************************)
CodecStream == disk[CodecFile].stream
RuleFollowing == \A k \in 1..Len(CodecStream) : lo_nibble(CodecStream[k].type) \in 0..7

\* C9: for every record sequence and every encoding of it by the rules of
\* the format, unpack_file reproduces the sequence exactly and in order
C9_RoundTrip ==
    \A c \in Callers :
        (pc[c] = "sort" /\ RuleFollowing) => region.data = orig

C9_Witness ==
    /\ \E c \in Callers : pc[c] = "sort"
    /\ Len(orig) >= 2
    /\ region.data = orig
    /\ scaled(hi_nibble(CodecStream[2].type))
    /\ lo_nibble(CodecStream[2].type) = 3

\* C10: a control byte whose id kind or offset kind is outside 0..7 ends
\* the decode with MalformedStream at that record: no record at or behind
\* it is decoded
C10_MalformedStops ==
    \A c \in Callers :
        /\ \A k \in 1..unpack[c].i :
              /\ lo_nibble(CodecStream[k].type) \in 0..7
              /\ (hi_nibble(CodecStream[k].type) % 8) \in 0..7
        /\ (pc[c] \in {"unpack", "failed"} /\ decodeRuns = 1) =>
              \A k \in (unpack[c].i + 1)..Len(region.data) : region.data[k] = MAPPING(0, 0)
        /\ (pc[c] = "failed" /\ decodeRuns = 1) =>
              /\ err[c] = "MalformedStream"
              /\ lo_nibble(CodecStream[unpack[c].i + 1].type) \notin 0..7

C10_Witness ==
    \E c \in Callers :
        /\ err[c] = "MalformedStream"
        /\ unpack[c].i = 1
        /\ region.data[1] # MAPPING(0, 0)
        /\ hi_nibble(CodecStream[2].type) = 15


(***************************************************************************)
(* Claims about candidate sets.  rel.call is the first call on the object: *)
(* the member, the index it worked with and what it returned.              *)
(***************************************************************************)
Resolving == rel.call.op \in {"resolve_id", "operator[]", "id"}
Slot(i) == rel.m_ids[i + 1]
AllZero == \A k \in 1..rel.N : rel.m_ids[k] = 0
FirstNonzero ==
    IF AllZero THEN 0
    ELSE rel.m_ids[CHOOSE k \in 1..rel.N :
                       rel.m_ids[k] # 0 /\ \A j \in 1..(k - 1) : rel.m_ids[j] = 0]

\* C11: for a candidate set of width N and an index i < N whose slot is
\* nonzero, resolve_id(i), operator[](i) and id() under runtime index i
\* return exactly slot i, whatever the other slots hold
C11_ExplicitSlotIsReturned ==
    (Resolving /\ rel.call.index < rel.N /\ Slot(rel.call.index) # 0) =>
        rel.call.value = Slot(rel.call.index)

C11_Witness ==
    /\ rel.call.op = "id"
    /\ rel.N = 3
    /\ rel.call.index = 2
    /\ Slot(0) # 0
    /\ Slot(2) # 0
    /\ Slot(2) # Slot(0)
    /\ rel.call.value = Slot(2)

\* C12: for an index that is out of range or whose slot is zero, resolve_id
\* returns slot 0 if it is nonzero, otherwise the first nonzero slot in
\* index order, otherwise 0
C12_FallbackOrder ==
    (Resolving /\ (rel.call.index >= rel.N \/ Slot(rel.call.index) = 0)) =>
        rel.call.value = (IF Slot(0) # 0 THEN Slot(0) ELSE FirstNonzero)

C12_Witness ==
    /\ rel.call.op = "resolve_id"
    /\ rel.m_ids = <<1, 2, 0>>
    /\ rel.call.index = 2
    /\ rel.call.value = 1

\* C13: a 3-slot set built by the two-argument constructor (a, b) has
\* raw_id(0) = a, raw_id(1) = b and raw_id(2) = a
C13_TwoArgumentsCopyPrimary ==
    (rel.ctor = "two" /\ rel.N = 3 /\ rel.call.op = "raw_id") =>
        /\ rel.call.index = 0 => rel.call.value = rel.args[1]
        /\ rel.call.index = 1 => rel.call.value = rel.args[2]
        /\ rel.call.index = 2 => rel.call.value = rel.args[1]

\* C14: offset() and address() of a set whose slots are all zero resolve
\* id 0, and on every loaded store, sorted or dense, the lookup fails with
\* IdNotFound and returns no offset
C14_AllZeroSetMisses ==
    (rel.call.op \in {"offset", "address"} /\ AllZero /\ last.view # <<>>) =>
        /\ rel.call.value = 0
        /\ last.id = 0
        /\ last.status = "IdNotFound"

(***************************************************************************)
(* Claims about the format tag and the path selection.                     *)
(***************************************************************************)
\* the constructor of c opened a binary file and read its leading tag
TagRead(c) ==
    /\ pc[c] # "ctor"
    /\ m_path[c] # NoPath
    /\ m_path[c][2] = "bin"
    /\ ~(m_loader[c] = "F4SE" /\ m_path[c][1] = "version")

\* C15: once the leading format tag of a binary file is read, every tag
\* other than 1, 2 or 5 aborts the load with UnsupportedFormat before a
\* header is parsed or a region created; tags 1 and 2 take the compressed
\* sorted path and tag 5 the dense path
C15_TagSelectsPath ==
    \A c \in Callers :
        TagRead(c) =>
            LET tag == disk[m_path[c]].tag
            IN  IF tag \in {1, 2}
                THEN /\ m_format[c] = tag
                     /\ pc[c] \in {"load_v2", "validate", "unpack", "sort", "loaded", "failed"}
                     /\ err[c] # "UnsupportedFormat"
                     /\ m_v5[c] = EmptySpan
                ELSE IF tag = 5
                THEN /\ m_format[c] = Format_V5
                     /\ pc[c] \in {"load_v5", "loaded", "failed"}
                     /\ err[c] # "UnsupportedFormat"
                     /\ m_v0[c] = EmptySpan
                ELSE /\ pc[c] = "failed"
                     /\ err[c] = "UnsupportedFormat"
                     /\ header[c] = NoHeader
                     /\ region = NoRegion

C15_Witness ==
    \E c \in Callers :
        /\ TagRead(c)
        /\ disk[m_path[c]].tag = 3
        /\ err[c] = "UnsupportedFormat"

\* C20: if any <root>-<version>.bin of the loader's roots exists, a binary
\* file is loaded and the CSV path is not taken
C20_BinaryBeforeCsv ==
    \A c \in Callers :
        (/\ pc[c] # "ctor"
         /\ m_loader[c] \in Loaders
         /\ \E k \in 1..Len(g_rootMap(m_loader[c])) :
               disk[<<g_rootMap(m_loader[c])[k], "bin">>] # NoFile)
        => (m_format[c] # Format_CSV /\ m_path[c][2] = "bin")

(***************************************************************************)
(* Claims about CSV ingestion.  csv[c] holds the locals of load_csv when   *)
(* the caller left it; the lines of the file are disk[m_path[c]].lines.    *)
(***************************************************************************)
CsvLines(c) == disk[m_path[c]].lines
DataLines(c) == 3..Len(CsvLines(c))

IdField(line) == trim(SubSeq(line, 1, find(line, ",") - 1))
OffsetField(line) == trim(SubSeq(line, find(line, ",") + 1, Len(line)))

\* a data line that carries an id and an offset
ValidLine(line) ==
    /\ line # <<>>
    /\ line[1] # "#"
    /\ find(line, ",") # npos
    /\ IdField(line) # <<>> /\ IsDigit(IdField(line)[1])
    /\ OffsetField(line) # <<>> /\ IsDigit(OffsetField(line)[1])

LineId(line) == stoull(IdField(line)).value

\* the last valid line with the same id as line k
LastOccurrence(c, k) ==
    /\ ValidLine(CsvLines(c)[k])
    /\ \A j \in DataLines(c) :
          (j > k /\ ValidLine(CsvLines(c)[j])) => LineId(CsvLines(c)[j]) # LineId(CsvLines(c)[k])

\* valid lines whose id an earlier valid line already carried
Repeats(c) ==
    {k \in DataLines(c) :
        /\ ValidLine(CsvLines(c)[k])
        /\ \E j \in 3..(k - 1) :
              ValidLine(CsvLines(c)[j]) /\ LineId(CsvLines(c)[j]) = LineId(CsvLines(c)[k])}

HexDigitValue(ch) ==
    CASE ch = "A" -> 10 [] ch = "B" -> 11 [] ch = "C" -> 12 [] ch = "D" -> 13
      [] ch = "E" -> 14 [] ch = "F" -> 15 [] OTHER -> DigitValue(ch)

RECURSIVE HexValue(_, _)
HexValue(str, acc) ==
    IF str = <<>> THEN acc ELSE HexValue(Tail(str), acc * 16 + HexDigitValue(Head(str)))

IsHexField(str) == Len(str) > 2 /\ str[1] = "0" /\ str[2] = "x"

\* C16: when an id appears on several valid data lines, the store holds
\* exactly one record for it, with the offset of its last occurrence, and
\* the duplicate counter counts each repeated occurrence once
C16_LastDuplicateWins ==
    \A c \in Callers :
        (csv[c].called /\ Repeats(c) # {}) =>
            /\ csv[c].locals.duplicateEntries = Cardinality(Repeats(c))
            /\ \A k \in Repeats(c) :
                  LastOccurrence(c, k) =>
                      /\ Cardinality({n \in 1..m_v0[c].len :
                                         region.data[n].id = LineId(CsvLines(c)[k])}) = 1
                      /\ \E n \in 1..m_v0[c].len :
                            /\ region.data[n].id = LineId(CsvLines(c)[k])
                            /\ region.data[n].offset = stoull(OffsetField(CsvLines(c)[k])).value

\* C17: an offset field written in 0x-prefixed hexadecimal is recorded
\* with its hexadecimal value ("5,0x10" then "5,0x20" gives id 5 the
\* offset 32)
C17_HexOffsetKeepsValue ==
    \A c \in Callers :
        csv[c].called =>
            \A k \in DataLines(c) :
                (LastOccurrence(c, k) /\ IsHexField(OffsetField(CsvLines(c)[k]))) =>
                    \E n \in 1..Len(csv[c].locals.mappings) :
                        /\ csv[c].locals.mappings[n].id = LineId(CsvLines(c)[k])
                        /\ csv[c].locals.mappings[n].offset =
                              HexValue(SubSeq(OffsetField(CsvLines(c)[k]), 3,
                                              Len(OffsetField(CsvLines(c)[k]))), 0)

\* C18: a CSV load whose file has at least one valid data line is not
\* aborted by reaching the end of the file: reading the lines raises no
\* error, and the load fails at most for the region
C18_EndOfFileIsNoError ==
    \A c \in Callers :
        (csv[c].called /\ \E k \in DataLines(c) : ValidLine(CsvLines(c)[k])) =>
            /\ ~csv[c].threw
            /\ err[c] \in {"None", "SharedRegionCreationFailed", "IdNotFound"}
            /\ pc[c] = "loaded" => m_v0[c].len = Len(csv[c].locals.mappings)

\* C19: a CSV load in which no data line is valid fails with
\* EmptyDatabase, creates no region and exposes no store
C19_NoRecordIsEmptyDatabase ==
    \A c \in Callers :
        (csv[c].called /\ \A k \in DataLines(c) : ~ValidLine(CsvLines(c)[k])) =>
            /\ pc[c] = "failed"
            /\ err[c] = "EmptyDatabase"
            /\ region = NoRegion
            /\ m_v0[c] = EmptySpan

(***************************************************************************)
(* Further claims about candidate sets.                                    *)
(***************************************************************************)
\* C21: id() is nonzero only when the current runtime has its own id: when
\* the slot of the current runtime index is 0, id() returns 0
C21_IdIsZeroWithoutOwnSlot ==
    (rel.call.op = "id" /\ rel.call.index < rel.N /\ Slot(rel.call.index) = 0) =>
        rel.call.value = 0

\* C22: in a single-runtime build (N = 1) id() equals slot 0, the first
\* constructor argument, for every current runtime index and every value
\* of slot 0
C22_SingleRuntimeIdIsSlotZero ==
    (rel.N = 1 /\ rel.call.op = "id") =>
        /\ rel.call.value = Slot(0)
        /\ rel.ctor = "args" => rel.call.value = rel.args[1]

C22_Witness ==
    /\ rel.N = 1
    /\ rel.call.op = "id"
    /\ rel.call.index = 1
    /\ rel.ctor = "args"
    /\ Len(rel.args) = 2
    /\ rel.args[1] # 0
    /\ rel.args[2] # rel.args[1]
    /\ rel.call.value = rel.args[1]

\* C28: for every index, in or out of range, resolve_id returns 0 if and
\* only if every slot is zero, and otherwise the value of a nonzero slot
C28_ZeroOnlyForAllZeroSet ==
    Resolving =>
        /\ rel.call.value = 0 <=> AllZero
        /\ rel.call.value # 0 => \E k \in 1..rel.N : rel.m_ids[k] = rel.call.value

C28_Witness ==
    /\ rel.call.op = "resolve_id"
    /\ rel.N = 3
    /\ rel.call.index = 3
    /\ rel.m_ids = <<0, 0, 2>>
    /\ rel.call.value = 2

\* C27: VariantID::get(i) returns slot i when i < N and the slot is
\* nonzero, slot 0 when i < N and the slot is zero, and 0 when i >= N
C27_VariantGet ==
    rel.call.op = "get" =>
        IF rel.call.index >= rel.N THEN rel.call.value = 0
        ELSE IF Slot(rel.call.index) # 0 THEN rel.call.value = Slot(rel.call.index)
        ELSE rel.call.value = Slot(0)

C27_Witness ==
    /\ rel.call.op = "get"
    /\ rel.m_ids = <<0, 2, 0>>
    /\ rel.call.index = 2
    /\ rel.call.value = 0

\* C23: once every caller has loaded a sorted-array format, the ids of the
\* records a caller's span views are unique and strictly ascending
C23_SortedStoreStrictlyAscending ==
    \A c \in Callers :
        ((\A d \in Callers : pc[d] = "loaded") /\ m_format[c] < Format_V5) =>
            IsAscending(Span(c, m_v0))

C25_OffsetIsReadOnly ==
    [][last' # last =>
          /\ region' = region
          /\ m_v0' = m_v0 /\ m_v5' = m_v5
          /\ m_format' = m_format /\ m_path' = m_path]_vars

C25_Witness ==
    /\ last.caller \in Callers
    /\ last.status \notin {"None", "ok"}
    /\ last.view # <<>>
    /\ pc[last.caller] = "failed"
    /\ last.view = (IF last.dense THEN Span(last.caller, m_v5) ELSE Span(last.caller, m_v0))

IsHexDigit(ch) == HexDigitValue(ch) >= 0

\* a field that is a number from its first character to its last: decimal
\* digits, or 0x and hexadecimal digits
NumericField(str) ==
    /\ str # <<>>
    /\ \/ \A k \in 1..Len(str) : IsDigit(str[k])
       \/ IsHexField(str) /\ \A k \in 3..Len(str) : IsHexDigit(str[k])

\* a data line whose id and offset fields are both numbers
NumericLine(line) ==
    /\ line # <<>>
    /\ line[1] # "#"
    /\ find(line, ",") # npos
    /\ NumericField(IdField(line))
    /\ NumericField(OffsetField(line))

\* C26: every record the CSV ingestion holds comes from a data line whose
\* id and offset fields are both entirely numbers; empty lines, comments,
\* lines without a comma, with an empty field or with a field such as
\* "12abc" contribute no record
C26_OnlyNumericLinesGiveRecords ==
    \A c \in Callers :
        csv[c].called =>
            \A n \in 1..Len(csv[c].locals.mappings) :
                \E k \in DataLines(c) :
                    /\ NumericLine(CsvLines(c)[k])
                    /\ LineId(CsvLines(c)[k]) = csv[c].locals.mappings[n].id

\* C29: a V2 header that was parsed and whose load went on stored its name
\* and the terminating NUL inside m_name: nameLen, the index of the NUL,
\* is below the 64 bytes of the buffer
C29_NameStaysInBuffer ==
    \A c \in Callers :
        (m_format[c] \in {Format_V1, Format_V2} /\ pc[c] = "loaded") =>
            header[c].nameLen < NameSize

\* C30: every pointer-scaled group the decoder has come to was decoded
\* with a pointer size greater than zero, and no division by zero ended
\* the process
C30_PointerSizeIsPositive ==
    \A c \in Callers :
        /\ err[c] # "DivideByZero"
        /\ \A k \in 1..unpack[c].i :
              scaled(hi_nibble(disk[m_path[c]].stream[k].type)) =>
                  header[c].pointerSize > 0

====
